---------------------------- MODULE Spec2Model ----------------------------
(***************************************************************************)
(* A model of scraper_avito.py (Avito.ma multi-city scraper, v5).          *)
(*                                                                         *)
(* Text is modelled as TLA+ strings, read character by character; the      *)
(* regular expressions of the program are given as sequences of steps that *)
(* one backtracking matcher runs.  Coordinates are integers in units of 1e-7 degree, so    *)
(* that rounding to six decimals is a real conversion.  Instants are       *)
(* integer minutes counted from Monday 2024-01-01T00:00Z.                  *)
(***************************************************************************)
EXTENDS Integers, Sequences, FiniteSets, TLC

\* An optional value: None, or Some(v) carrying v (JSON null, or the value).
None == <<>>
Some(v) == <<v>>
Get(o) == o[1]

SetMin(S) == CHOOSE x \in S : \A y \in S : x <= y
SetMax(S) == CHOOSE x \in S : \A y \in S : x >= y

(***************************************************************************)
(* Characters and strings (Python str).                                    *)
(***************************************************************************)
Ch(s, i) == IF 1 <= i /\ i <= Len(s) THEN SubSeq(s, i, i) ELSE ""
\* s[i-1:j]: a slice, cut to the string as Python cuts it
Sub(s, i, j) ==
  LET a == IF i < 1 THEN 1 ELSE i
      b == IF j > Len(s) THEN Len(s) ELSE j
  IN IF a <= b THEN SubSeq(s, a, b) ELSE ""

Digits == {"0", "1", "2", "3", "4", "5", "6", "7", "8", "9"}
DigitVal(c) ==
  CASE c = "0" -> 0 [] c = "1" -> 1 [] c = "2" -> 2 [] c = "3" -> 3
    [] c = "4" -> 4 [] c = "5" -> 5 [] c = "6" -> 6 [] c = "7" -> 7
    [] c = "8" -> 8 [] c = "9" -> 9

\* U+00A0, the no-break space used as a thousands separator (the program also
\* rewrites U+202F and U+2009, which lie outside the characters of this model).
NBSP == " "
\* What \s and str.strip() take as white space, among the characters used.
WhiteSpace == {" ", "\t", NBSP}

UpperChars == "ABCDEFGHIJKLMNOPQRSTUVWXYZÉÈÂÔÀÇ"
LowerChars == "abcdefghijklmnopqrstuvwxyzéèâôàç"
UpperSet == {Ch(UpperChars, i) : i \in 1..Len(UpperChars)}
LowerSet == {Ch(LowerChars, i) : i \in 1..Len(LowerChars)}
ToLower == [c \in UpperSet |->
              Ch(LowerChars, CHOOSE i \in 1..Len(UpperChars) : Ch(UpperChars, i) = c)]
ToUpper == [c \in LowerSet |->
              Ch(UpperChars, CHOOSE i \in 1..Len(LowerChars) : Ch(LowerChars, i) = c)]
IsCased(c) == c \in UpperSet \/ c \in LowerSet
LowerCh(c) == IF c \in UpperSet THEN ToLower[c] ELSE c
UpperCh(c) == IF c \in LowerSet THEN ToUpper[c] ELSE c

RECURSIVE MapStr(_, _)
\* str.lower() with up = FALSE, str.upper() with up = TRUE.
MapStr(s, up) ==
  IF s = "" THEN ""
  ELSE (IF up THEN UpperCh(Ch(s, 1)) ELSE LowerCh(Ch(s, 1)))
       \o MapStr(Sub(s, 2, Len(s)), up)
Lower(s) == MapStr(s, FALSE)
Upper(s) == MapStr(s, TRUE)

RECURSIVE TitleFrom(_, _)
TitleFrom(s, prevCased) ==
  IF s = "" THEN ""
  ELSE LET c == Ch(s, 1) IN
       (IF IsCased(c) THEN (IF prevCased THEN LowerCh(c) ELSE UpperCh(c)) ELSE c)
       \o TitleFrom(Sub(s, 2, Len(s)), IsCased(c))
\* str.title()
Title(s) == TitleFrom(s, FALSE)

\* str.strip()
Strip(s) ==
  LET keep == {i \in 1..Len(s) : Ch(s, i) \notin WhiteSpace} IN
  IF keep = {} THEN "" ELSE Sub(s, SetMin(keep), SetMax(keep))

\* sub in s
Contains(sub, s) ==
  \E i \in 1..(Len(s) - Len(sub) + 1) : Sub(s, i, i + Len(sub) - 1) = sub

\* re.sub(r'\s', '', s)
RECURSIVE DropWs(_)
DropWs(s) ==
  IF s = "" THEN ""
  ELSE (IF Ch(s, 1) \in WhiteSpace THEN "" ELSE Ch(s, 1))
       \o DropWs(Sub(s, 2, Len(s)))

\* int(s) of a string of decimal digits
RECURSIVE ToInt(_)
ToInt(s) ==
  IF Len(s) = 0 THEN 0
  ELSE 10 * ToInt(Sub(s, 1, Len(s) - 1)) + DigitVal(Ch(s, Len(s)))

(***************************************************************************)
(* Regular expressions (module re).  A pattern is a sequence of steps, and *)
(* Match tries them as a backtracking matcher does: a greedy repetition    *)
(* takes the longest run that lets the rest match, a lazy one the          *)
(* shortest, an alternation its first branch that does.                    *)
(***************************************************************************)
\* A literal; with re.I it is given in lower case and ci is TRUE.
Lit(t) == [k |-> "lit", t |-> t, ci |-> TRUE]
LitCS(t) == [k |-> "lit", t |-> t, ci |-> FALSE]
\* min to max characters of a class (max < 0: no upper limit); the class
\* is the set, or with neg all characters outside it.
Rep(set, neg, min, max, lazy) ==
  [k |-> "rep", set |-> set, neg |-> neg, min |-> min, max |-> max, lazy |-> lazy]
Alt(alts) == [k |-> "alt", alts |-> alts]
Opt(seq) == [k |-> "opt", seq |-> seq]
Open(g) == [k |-> "open", g |-> g]
Close(g) == [k |-> "close", g |-> g]
End == [k |-> "end"]

D1 == Rep(Digits, FALSE, 1, 1, FALSE)          \* \d
DPlus == Rep(Digits, FALSE, 1, -1, FALSE)      \* \d+
DStar == Rep(Digits, FALSE, 0, -1, FALSE)      \* \d*
WsPlus == Rep(WhiteSpace, FALSE, 1, -1, FALSE) \* \s+
WsStar == Rep(WhiteSpace, FALSE, 0, -1, FALSE) \* \s*
OptS == Opt(<<Lit("s")>>)                      \* s?

\* No group has taken part: group g spans caps[g][1]..caps[g][2].
NoCaps == << <<0, 0>>, <<0, 0>>, <<0, 0>> >>

LitAt(s, i, st) ==
  /\ i + Len(st.t) - 1 <= Len(s)
  /\ \A j \in 1..Len(st.t) :
       (IF st.ci THEN LowerCh(Ch(s, i + j - 1)) ELSE Ch(s, i + j - 1)) = Ch(st.t, j)

\* How many characters from position i on are in the class of st, up to
\* st.max.
RunLen(s, i, st) ==
  LET stop == {j \in i..Len(s) : (Ch(s, j) \in st.set) = st.neg}
      run == (IF stop = {} THEN Len(s) + 1 ELSE SetMin(stop)) - i
  IN IF st.max >= 0 /\ run > st.max THEN st.max ELSE run

RECURSIVE Match(_, _, _, _)
\* The steps matched from position i: None, or Some of the groups and of
\* the position after the match.
Match(s, i, steps, caps) ==
  IF steps = <<>> THEN Some([caps |-> caps, end |-> i])
  ELSE
    LET st == Head(steps)
        rest == Tail(steps)
    IN CASE st.k = "lit" ->
              IF LitAt(s, i, st) THEN Match(s, i + Len(st.t), rest, caps)
              ELSE None
         [] st.k = "rep" ->
              LET tries == {<<n, Match(s, i + n, rest, caps)>> :
                              n \in st.min..RunLen(s, i, st)}
                  ok == {t \in tries : t[2] # None}
                  ns == {t[1] : t \in ok}
              IN IF ok = {} THEN None
                 ELSE (CHOOSE t \in ok :
                         t[1] = IF st.lazy THEN SetMin(ns) ELSE SetMax(ns))[2]
         [] st.k = "alt" ->
              LET tries == [a \in 1..Len(st.alts) |->
                              Match(s, i, st.alts[a] \o rest, caps)]
                  ok == {a \in 1..Len(st.alts) : tries[a] # None}
              IN IF ok = {} THEN None ELSE tries[SetMin(ok)]
         [] st.k = "opt" ->
              LET taken == Match(s, i, st.seq \o rest, caps) IN
              IF taken # None THEN taken ELSE Match(s, i, rest, caps)
         [] st.k = "open" ->
              Match(s, i, rest, [caps EXCEPT ![st.g] = <<i, i - 1>>])
         [] st.k = "close" ->
              Match(s, i, rest, [caps EXCEPT ![st.g][2] = i - 1])
         [] st.k = "end" ->
              IF i = Len(s) + 1 THEN Match(s, i, rest, caps) ELSE None

\* pattern.match(s)
re_match(pattern, s) == Match(s, 1, pattern, NoCaps)

\* pattern.search(s): the match at the first position that has one
re_search(pattern, s) ==
  LET tries == [i \in 1..(Len(s) + 1) |-> Match(s, i, pattern, NoCaps)]
      ok == {i \in 1..(Len(s) + 1) : tries[i] # None}
  IN IF ok = {} THEN None ELSE tries[SetMin(ok)]

\* m.group(g) of a match m of s: None when the group took no part
Group(s, m, g) ==
  LET c == Get(m).caps[g] IN
  IF c[1] = 0 THEN None ELSE Some(Sub(s, c[1], c[2]))

(***************************************************************************)
(* Date helpers.                                                           *)
(***************************************************************************)
\* date_boundary(mode) at the instant now.  The origin is a Monday and the
\* first day of a month, and the clock stays within that month.
date_boundary(mode, now) ==
  LET midnight == now - (now % 1440)
      weekday == (now \div 1440) % 7
  IN CASE mode = "today" -> Some(midnight)
       [] mode = "week" -> Some(midnight - weekday * 1440)
       [] mode = "month" -> Some(0)
       [] OTHER -> None

\* il y a\s+(\d+)\s+(minute|heure|jour|semaine|mois)s? with re.I
REL_RE ==
  <<Lit("il y a"), WsPlus, Open(1), DPlus, Close(1), WsPlus, Open(2),
    Alt(<< <<Lit("minute")>>, <<Lit("heure")>>, <<Lit("jour")>>,
           <<Lit("semaine")>>, <<Lit("mois")>> >>),
    Close(2), OptS>>

\* The minutes of deltas[unit] for n = 1.
UnitMinutes(unit) ==
  CASE unit = "minute" -> 1
    [] unit = "heure" -> 60
    [] unit = "jour" -> 1440
    [] unit = "semaine" -> 10080
    [] unit = "mois" -> 43200
    [] OTHER -> 0

\* What parse_relative_date returns once m = _REL_RE.search(text) is known.
date_of_match(text, now, m) ==
  IF m = None THEN now
  ELSE now - ToInt(Get(Group(text, m, 1))) * UnitMinutes(Lower(Get(Group(text, m, 2))))

parse_relative_date(text, now) == date_of_match(text, now, re_search(REL_RE, text))

\* il y a\s+\d+ with re.I
TIME_RE == <<Lit("il y a"), WsPlus, DPlus>>
IsTimeLine(l) == re_search(TIME_RE, l) # None

(***************************************************************************)
(* City detection.                                                         *)
(***************************************************************************)
\* CITY_TEXT_MAP, in the order the dict is iterated.
CITY_TEXT_MAP ==
  << <<"casablanca", "Casablanca">>, <<"agadir", "Agadir">>,
     <<"marrakech", "Marrakech">>, <<"tanger", "Tanger">>,
     <<"rabat", "Rabat">>, <<"mohammedia", "Mohammedia">>,
     <<"salé", "Rabat">>, <<"sale", "Rabat">> >>

\* ^(?:Appartements|Villas?\s+et\s+Riads?)\s+dans\s+ with re.I
LOC_LINE_RE ==
  <<Alt(<< <<Lit("appartements")>>,
           <<Lit("villa"), OptS, WsPlus, Lit("et"), WsPlus, Lit("riad"), OptS>> >>),
    WsPlus, Lit("dans"), WsPlus>>
IsLocLine(l) == re_match(LOC_LINE_RE, l) # None

\* ^(?:Appartements|Villas?\s+et\s+Riads?)\s+dans\s+([^,]+)(?:,\s*(.+))?$
LOC_RE ==
  LOC_LINE_RE \o
  <<Open(1), Rep({","}, TRUE, 1, -1, FALSE), Close(1),
    Opt(<<Lit(","), WsStar, Open(2), Rep({"\n"}, TRUE, 1, -1, FALSE), Close(2)>>),
    End>>

\* loc or ""
LocText(loc) == IF loc = None THEN "" ELSE Get(loc)

\* The loop over CITY_TEXT_MAP, on g1 = m.group(1).strip() and raw, its
\* lower case, and the title case that follows it.
city_of_raw(g1, raw) ==
  LET hits == {k \in 1..Len(CITY_TEXT_MAP) : Contains(CITY_TEXT_MAP[k][1], raw)}
  IN IF hits # {} THEN Some(CITY_TEXT_MAP[SetMin(hits)][2])
     ELSE Some(Title(g1))
city_of_group(g1) == city_of_raw(g1, Lower(g1))

\* What city_from_location returns once m = _LOC_RE.match(text) is known.
city_of_match(text, m) ==
  IF m = None THEN None ELSE city_of_group(Strip(Get(Group(text, m, 1))))

city_from_location(loc) ==
  city_of_match(LocText(loc), re_match(LOC_RE, LocText(loc)))

\* What quartier_from_location returns on g2 = m.group(2).
quartier_of_group(g2) ==
  IF g2 = None \/ g2 = Some("") THEN None
  ELSE Some(Title(Strip(Get(g2))))
quartier_of_match(text, m) ==
  IF m = None THEN None ELSE quartier_of_group(Group(text, m, 2))

quartier_from_location(loc) ==
  quartier_of_match(LocText(loc), re_match(LOC_RE, LocText(loc)))

(***************************************************************************)
(* Core stats-line parser.                                                 *)
(***************************************************************************)
\* ^(\d+)\s+(\d+)\s+(\d+)\s*m[²2]\s*\d*\s*$ with re.I
STATS_WITH_SURF ==
  <<Open(1), DPlus, Close(1), WsPlus, Open(2), DPlus, Close(2), WsPlus,
    Open(3), DPlus, Close(3), WsStar, Lit("m"),
    Rep({"²", "2"}, FALSE, 1, 1, FALSE), WsStar, DStar, WsStar, End>>

\* ^(\d+)\s+(\d+)\s+\d+\s*$
STATS_NO_SURF ==
  <<Open(1), DPlus, Close(1), WsPlus, Open(2), DPlus, Close(2), WsPlus,
    DPlus, WsStar, End>>

\* parse_stats_line(line) = <<rooms, surface>>
stats_of_match(l, a, b) ==
  IF a # None
  THEN <<Some(ToInt(Get(Group(l, a, 1)))), Some(ToInt(Get(Group(l, a, 3))))>>
  ELSE IF b # None THEN <<Some(ToInt(Get(Group(l, b, 1)))), None>>
  ELSE <<None, None>>
\* l is line.strip(); a and b are the matches of the two patterns on it.
stats_of_stripped(l) ==
  stats_of_match(l, re_match(STATS_WITH_SURF, l), re_match(STATS_NO_SURF, l))

parse_stats_line(line) ==
  IF line = "" THEN <<None, None>> ELSE stats_of_stripped(Strip(line))

(***************************************************************************)
(* Price parser.                                                           *)
(***************************************************************************)
\* re.sub(r'[\xa0\u202f\u2009]', ' ', line), on the characters of the model
RECURSIVE NormaliseSpaces(_)
NormaliseSpaces(s) ==
  IF s = "" THEN ""
  ELSE (IF Ch(s, 1) = NBSP THEN " " ELSE Ch(s, 1))
       \o NormaliseSpaces(Sub(s, 2, Len(s)))

\* ([\d][\d\s]*?)\s*DH with re.I: the body of _PRICE_RE
PRICE_BODY ==
  <<Open(1), D1, Rep(Digits \cup WhiteSpace, FALSE, 0, -1, TRUE), Close(1),
    WsStar, Lit("dh")>>

\* _PRICE_RE = ^([\d][\d\s]*?)\s*DH is applied with match: at the start
PRICE_RE_match(s) == re_match(PRICE_BODY, s)

\* What parse_price_line returns once m = _PRICE_RE.match(l) is known, l
\* being the line with its separators made spaces, stripped.
price_of_match(l, m) ==
  IF m = None THEN None ELSE Some(ToInt(DropWs(Get(Group(l, m, 1)))))
price_of_stripped(l) == price_of_match(l, PRICE_RE_match(l))

parse_price_line(line) ==
  IF line = "" THEN None ELSE price_of_stripped(Strip(NormaliseSpaces(line)))

(***************************************************************************)
(* Bounding boxes <<lat_min, lat_max, lng_min, lng_max>>, in 1e-7 degree.  *)
(***************************************************************************)
QUARTIER_BOUNDS ==
     ("Ain Diab" :> <<335820000, 335960000, -77050000, -76650000>>)
  @@ ("Anfa" :> <<335830000, 335980000, -76680000, -76400000>>)
  @@ ("Casa Anfa" :> <<335680000, 335800000, -76650000, -76430000>>)
  @@ ("Racine" :> <<335830000, 335970000, -76510000, -76280000>>)
  @@ ("Gauthier" :> <<335820000, 335950000, -76360000, -76110000>>)
  @@ ("Maarif" :> <<335720000, 335930000, -76480000, -76220000>>)
  @@ ("Californie" :> <<335620000, 335810000, -76500000, -76220000>>)
  @@ ("Triangle D'Or" :> <<335850000, 335980000, -76380000, -76180000>>)
  @@ ("Centre Ville" :> <<335850000, 336030000, -76260000, -75980000>>)
  @@ ("Bourgogne" :> <<335730000, 335910000, -76260000, -76000000>>)
  @@ ("Val Fleuri" :> <<335700000, 335890000, -76400000, -76120000>>)
  @@ ("Palmier" :> <<335640000, 335820000, -76180000, -75900000>>)
  @@ ("Belvedere" :> <<335780000, 335960000, -76170000, -75890000>>)
  @@ ("Belvédère" :> <<335780000, 335960000, -76170000, -75890000>>)
  @@ ("Derb Sultan" :> <<335740000, 335930000, -76120000, -75830000>>)
  @@ ("Cil" :> <<335570000, 335750000, -76180000, -75890000>>)
  @@ ("Sidi Belyout" :> <<335910000, 336060000, -76280000, -76030000>>)
  @@ ("Hay Mohammadi" :> <<335850000, 336030000, -76020000, -75720000>>)
  @@ ("Roches Noires" :> <<335870000, 336070000, -75870000, -75560000>>)
  @@ ("Ain Sebaa" :> <<336030000, 336250000, -75900000, -75480000>>)
  @@ ("Sidi Bernoussi" :> <<335940000, 336120000, -75770000, -75450000>>)
  @@ ("Oasis" :> <<335480000, 335720000, -76500000, -76180000>>)
  @@ ("Hay Hassani" :> <<335360000, 335630000, -76820000, -76440000>>)
  @@ ("Ain Chock" :> <<335560000, 335730000, -76360000, -76060000>>)
  @@ ("Oulfa" :> <<335270000, 335530000, -76700000, -76330000>>)
  @@ ("Sidi Maarouf" :> <<335210000, 335510000, -76480000, -76130000>>)
  @@ ("Hay Riad" :> <<335480000, 335650000, -76420000, -76140000>>)
  @@ ("Moulay Rachid" :> <<335480000, 335660000, -76120000, -75820000>>)
  @@ ("Ben M'Sick" :> <<335610000, 335770000, -76160000, -75900000>>)
  @@ ("Sbata" :> <<335700000, 335850000, -76070000, -75820000>>)
  @@ ("Derb Ghallef" :> <<335730000, 335900000, -76190000, -75980000>>)
  @@ ("Mers Sultan" :> <<335810000, 335980000, -76190000, -76010000>>)
  @@ ("Hay Chrifa" :> <<335400000, 335580000, -76470000, -76230000>>)
  @@ ("Ferme Bretone" :> <<335620000, 335780000, -76340000, -76100000>>)
  @@ ("Franceville" :> <<335750000, 335920000, -76410000, -76180000>>)
  @@ ("Les Princesses" :> <<335810000, 335960000, -76350000, -76140000>>)
  @@ ("Nassim" :> <<335300000, 335480000, -76430000, -76180000>>)
  @@ ("Maârif Extension" :> <<335640000, 335820000, -76550000, -76280000>>)
  @@ ("Casablanca Finance City" :> <<335350000, 335520000, -76550000, -76300000>>)
  @@ ("Quartier Des Hôpitaux" :> <<335810000, 335970000, -76230000, -76000000>>)
  @@ ("Founty" :> <<303880000, 304060000, -96250000, -95950000>>)
  @@ ("Talborjt" :> <<304140000, 304300000, -96000000, -95750000>>)
  @@ ("Hay Almassira" :> <<303950000, 304150000, -95750000, -95450000>>)
  @@ ("Centre Agadir" :> <<304180000, 304320000, -95920000, -95680000>>)
  @@ ("Dakhla" :> <<304020000, 304180000, -96050000, -95800000>>)
  @@ ("Anza" :> <<304400000, 304650000, -96100000, -95800000>>)
  @@ ("Gueliz" :> <<316300000, 316480000, -80220000, -79920000>>)
  @@ ("Guéliz" :> <<316300000, 316480000, -80220000, -79920000>>)
  @@ ("Hivernage" :> <<316140000, 316320000, -80100000, -79850000>>)
  @@ ("Medina" :> <<316180000, 316360000, -79980000, -79750000>>)
  @@ ("Palmeraie" :> <<316380000, 316650000, -79600000, -79250000>>)
  @@ ("Majorelle" :> <<316360000, 316500000, -80020000, -79780000>>)
  @@ ("Targa" :> <<315960000, 316160000, -80200000, -79950000>>)
  @@ ("Massira" :> <<315980000, 316180000, -79980000, -79700000>>)
  @@ ("Azli" :> <<316100000, 316280000, -80050000, -79780000>>)
  @@ ("Victor Hugo" :> <<316280000, 316450000, -80180000, -79930000>>)
  @@ ("Es Saada" :> <<315950000, 316140000, -80020000, -79750000>>)
  @@ ("Malabata" :> <<357780000, 357960000, -57780000, -57450000>>)
  @@ ("Centre Tanger" :> <<357650000, 357820000, -58200000, -57900000>>)
  @@ ("Marshan" :> <<357780000, 357950000, -58250000, -57980000>>)
  @@ ("Iberia" :> <<357560000, 357750000, -58120000, -57850000>>)
  @@ ("Iberie" :> <<357560000, 357750000, -58120000, -57850000>>)
  @@ ("Zemmouri" :> <<357500000, 357680000, -58400000, -58100000>>)
  @@ ("Agdal" :> <<339900000, 340100000, -68600000, -68300000>>)
  @@ ("Hassan" :> <<340100000, 340300000, -68500000, -68200000>>)
  @@ ("Souissi" :> <<339900000, 340150000, -68250000, -67950000>>)
  @@ ("Les Orangers" :> <<340050000, 340250000, -68700000, -68400000>>)
  @@ ("Yacoub El Mansour" :> <<339750000, 339980000, -68750000, -68450000>>)
  @@ ("Centre Mohammedia" :> <<336880000, 337060000, -74020000, -73720000>>)
  @@ ("Ain Harrouda" :> <<336600000, 336820000, -74280000, -73980000>>)
  @@ ("La Siesta" :> <<336900000, 337080000, -74100000, -73800000>>)

CITY_BOUNDS ==
     ("Casablanca" :> <<335200000, 336300000, -77100000, -75400000>>)
  @@ ("Agadir" :> <<303800000, 304700000, -96400000, -95400000>>)
  @@ ("Marrakech" :> <<315800000, 316800000, -80600000, -79200000>>)
  @@ ("Tanger" :> <<357200000, 358100000, -58700000, -57400000>>)
  @@ ("Rabat" :> <<339300000, 340600000, -69000000, -67900000>>)
  @@ ("Mohammedia" :> <<336600000, 337200000, -74300000, -73600000>>)

\* How many steps the samples of one random.uniform call are spread over.
NSamples == 3

\* random.uniform(a, b): a value of the closed interval [a, b]; the model
\* draws it from NSamples + 1 evenly spread points.
uniform(a, b) == {a + ((b - a) * k) \div NSamples : k \in 0..NSamples}

\* round(x, 6): to the nearest 1e-6 degree, a tie going to the even one.
Round6(x) ==
  LET r == x % 10
      down == x - r
  IN IF r < 5 THEN down
     ELSE IF r > 5 THEN down + 10
     ELSE IF (down \div 10) % 2 = 0 THEN down ELSE down + 10

\* The lookup the other way round: the city before the quartier.
lookup_box_city_first(quartier, city) ==
  IF city # None /\ Get(city) \in DOMAIN CITY_BOUNDS
  THEN Some(CITY_BOUNDS[Get(city)])
  ELSE IF quartier # None /\ Get(quartier) \in DOMAIN QUARTIER_BOUNDS
  THEN Some(QUARTIER_BOUNDS[Get(quartier)])
  ELSE None

\* QUARTIER_BOUNDS.get(quartier) or CITY_BOUNDS.get(city)
lookup_box(quartier, city) ==
  IF quartier # None /\ Get(quartier) \in DOMAIN QUARTIER_BOUNDS
  THEN Some(QUARTIER_BOUNDS[Get(quartier)])
  ELSE IF city # None /\ Get(city) \in DOMAIN CITY_BOUNDS
  THEN Some(CITY_BOUNDS[Get(city)])
  ELSE None

\* coords_for(quartier, city): the pairs <<lat, lng>> a call may return.
coords_in(box) ==
  IF box = None THEN {<<None, None>>}
  ELSE {<<Some(Round6(x)), Some(Round6(y))>> :
          x \in uniform(Get(box)[1], Get(box)[2]),
          y \in uniform(Get(box)[3], Get(box)[4])}
coords_for(quartier, city) == coords_in(lookup_box(quartier, city))

(***************************************************************************)
(* Sources.                                                                *)
(***************************************************************************)
\* ^https://www\.avito\.ma/fr/[^/]+/<segment>/[^/]+\.htm$
HrefRe(segment) ==
  <<LitCS("https://www.avito.ma/fr/"), Rep({"/"}, TRUE, 1, -1, FALSE),
    LitCS(segment), Rep({"/"}, TRUE, 1, -1, FALSE), LitCS(".htm"), End>>

\* SOURCES; SourceOrder is the order SOURCES.items() yields.
SOURCES ==
  [appartement |-> [type |-> "appartement",
                    href_re |-> HrefRe("/appartements/"), pages |-> 30],
   villa |-> [type |-> "villa",
              href_re |-> HrefRe("/villas_et_riads/"), pages |-> 20]]
SourceOrder == <<"appartement", "villa">>

\* soup.find_all("a", href=href_re): the anchors of the document, in
\* document order, whose href matches.  An anchor is given by its href,
\* the stripped non-empty text lines of its card (_raw_lines) and the
\* source of its thumbnail ("" when it has none).
RECURSIVE find_all(_, _)
find_all(doc, source) ==
  IF doc = <<>> THEN <<>>
  ELSE (IF re_match(source.href_re, Head(doc).href) # None THEN <<Head(doc)>> ELSE <<>>)
       \o find_all(Tail(doc), source)

(***************************************************************************)
(* Scrape one page: the body of the loop over the anchors.                 *)
(***************************************************************************)
\* The skip without the seen set: only "immoneuf" in href.
SkipAnchorNoSeen(href, seenSet) == Contains("immoneuf", href)

\* "immoneuf" in href or href in seen
SkipAnchor(href, seenSet) == Contains("immoneuf", href) \/ href \in seenSet

\* ^[\d][\d\s]*$
DIGITS_LINE_RE == <<D1, Rep(Digits \cup WhiteSpace, FALSE, 0, -1, FALSE), End>>
IsDigitsLine(l) == re_match(DIGITS_LINE_RE, l) # None

\* The loop that merges a line "DH" into the number on the line before it.
RECURSIVE MergeLines(_, _)
MergeLines(raw, lines) ==
  IF raw = <<>> THEN lines
  ELSE IF Head(raw) = "DH" /\ lines # <<>> /\ IsDigitsLine(lines[Len(lines)])
  THEN MergeLines(Tail(raw), [lines EXCEPT ![Len(lines)] = @ \o " DH"])
  ELSE MergeLines(Tail(raw), Append(lines, Head(raw)))

\* next(...) over the lines: the first of the indices hits of the lines that
\* satisfy the condition, 0 when there is none
FirstLine(hits) == IF hits = {} THEN 0 ELSE SetMin(hits)

HasDH(l) == Contains("DH", l)
IsStatsLine(l) == parse_stats_line(l)[1] # None

\* The stats of the first of the lines hits, those that parse as a stats
\* line.
first_stats(lines, hits) ==
  IF hits = {} THEN <<None, None>> ELSE parse_stats_line(lines[SetMin(hits)])

\* The stats read at a fixed offset: on the line after the title.
scan_stats_at_offset(lines, idx) ==
  IF idx = 0 \/ idx + 2 > Len(lines) THEN <<None, None>>
  ELSE parse_stats_line(lines[idx + 2])

\* The first line after the location line (at index idx) that parses as a
\* stats line: <<rooms, surface>>.
scan_stats(lines, idx) ==
  IF idx = 0 THEN <<None, None>>
  ELSE first_stats(lines, {i \in (idx + 1)..Len(lines) : IsStatsLine(lines[i])})

\* (\d{2,4})\s*m[²2] with re.I
TITLE_SURF_RE ==
  <<Open(1), Rep(Digits, FALSE, 2, 4, FALSE), Close(1), WsStar, Lit("m"),
    Rep({"²", "2"}, FALSE, 1, 1, FALSE)>>

\* The surface fallback: a surface read in the title, within 20..2000.
surface_in_band(surface, v) ==
  IF 20 <= v /\ v <= 2000 THEN Some(v) ELSE surface
surface_of_match(surface, title, m_surf) ==
  IF m_surf = None THEN surface
  ELSE surface_in_band(surface, ToInt(Get(Group(title, m_surf, 1))))
surface_fallback(surface, title) ==
  IF surface = None /\ title # ""
  THEN surface_of_match(surface, title, re_search(TITLE_SURF_RE, title))
  ELSE surface

\* round(p / s), a tie going to the even integer
RoundDiv(p, s) ==
  LET q == p \div s
      r == p % s
  IN IF 2 * r < s THEN q
     ELSE IF 2 * r > s THEN q + 1
     ELSE IF q % 2 = 0 THEN q ELSE q + 1

\* round(price / surface) if price and surface and surface > 0 else None
price_m2_of(price, surface) ==
  IF /\ price # None /\ Get(price) # 0
     /\ surface # None /\ Get(surface) # 0 /\ Get(surface) > 0
  THEN Some(RoundDiv(Get(price), Get(surface))) ELSE None

\* The dict appended for anchor a, but for lat and lng.
listing_dict(a, prop_type, now, time_raw, loc_line, title, rooms, surface, price) ==
  [title |-> title,
   type |-> prop_type,
   city |-> city_from_location(loc_line),
   quartier |-> quartier_from_location(loc_line),
   price |-> price,
   surface |-> surface,
   rooms |-> rooms,
   price_m2 |-> price_m2_of(price, surface),
   location |-> LocText(loc_line),
   link |-> a.href,
   images |-> IF a.img_src # "" THEN <<a.img_src>> ELSE <<>>,
   published_at |-> parse_relative_date(time_raw, now),
   time_text |-> time_raw,
   scraped_at |-> now]

\* The surface, after its fallback, of the stats found and the title.
fields_of_stats(a, prop_type, now, time_raw, loc_line, title, stats, price) ==
  listing_dict(a, prop_type, now, time_raw, loc_line, title, stats[1],
               surface_fallback(stats[2], title), price)

\* ti, idx and pi are the indices of the first timestamp line, the first
\* location line and the first line with DH, 0 when there is none.
fields_at(a, prop_type, now, lines, ti, idx, pi) ==
  fields_of_stats(a, prop_type, now,
                  IF ti = 0 THEN "" ELSE lines[ti],
                  IF idx = 0 THEN None ELSE Some(lines[idx]),
                  IF idx # 0 /\ idx + 1 <= Len(lines) THEN lines[idx + 1] ELSE "",
                  scan_stats(lines, idx),
                  parse_price_line(IF pi = 0 THEN "" ELSE lines[pi]))

fields_of_lines(a, prop_type, now, lines) ==
  fields_at(a, prop_type, now, lines,
            FirstLine({i \in 1..Len(lines) : IsTimeLine(lines[i])}),
            FirstLine({i \in 1..Len(lines) : IsLocLine(lines[i])}),
            FirstLine({i \in 1..Len(lines) : HasDH(lines[i])}))

listing_fields(a, prop_type, now) ==
  fields_of_lines(a, prop_type, now, MergeLines(a.raw_lines, <<>>))

\* The dict with the coordinates coords_for may draw, one for each pair.
with_coords(f) ==
  {f @@ [lat |-> ll[1], lng |-> ll[2]] : ll \in coords_for(f.quartier, f.city)}

\* The dicts scrape_page may append for anchor a.
listing_for(a, prop_type, now) == with_coords(listing_fields(a, prop_type, now))

(***************************************************************************)
(* State.                                                                  *)
(***************************************************************************)
VARIABLES
  pc,            \* where the program stands
  args,          \* the parsed command line: pages, date, ptype
  now,           \* the clock, datetime.now(timezone.utc)
  src,           \* main: the index in SourceOrder of the source being scraped
  page_num,      \* main: the page being scraped
  attempt,       \* scrape_page: the fetch attempts that have failed
  anchors,       \* scrape_page: the anchors found in the document
  ai,            \* scrape_page: how many of them the loop has passed
  seen,          \* scrape_page: the hrefs kept so far on this page
  listings,      \* scrape_page: the dicts appended so far on this page
  all_listings,  \* main: the dicts of all pages so far
  output,        \* what json.dump wrote to data.json, None before that
  calls,         \* main: the calls of scrape_page and of the randomized
                 \* time.sleep made so far, in order
  line,          \* the argument of a call of parse_price_line taken alone
  parsed         \* what that call returned

vars == <<pc, args, now, src, page_num, attempt, anchors, ai, seen, listings,
          all_listings, output, calls, line, parsed>>

mainVars == <<args, now, src, page_num, all_listings, output, calls>>
callVars == <<line, parsed>>

source == SOURCES[SourceOrder[src]]

\* n_pages = args.pages or source["pages"]
n_pages ==
  IF args.pages # None /\ Get(args.pages) # 0 THEN Get(args.pages)
  ELSE source.pages

\* range(4): the fetch attempts of one page
Attempts == 4

\* batch = scrape_page(page_num, source): the call for page p of the source
\* at index s of SourceOrder.
PageCall(s, p) == [op |-> "scrape_page", source |-> SourceOrder[s], page |-> p]

\* time.sleep(random.uniform(1.5, 3.0)) after page p of that source; how long
\* it lasts changes nothing the program reads.
SleepCall(s, p) == [op |-> "sleep", source |-> SourceOrder[s], page |-> p]

(***************************************************************************)
(* scrape_page.                                                            *)
(***************************************************************************)
\* An attempt succeeds: the document is parsed and its anchors found; seen
\* and listings start empty.  docs are the documents the site may serve.
FetchOk(docs) ==
  /\ pc = "fetch"
  /\ attempt < Attempts
  /\ \E doc \in docs : anchors' = find_all(doc, source)
  /\ ai' = 0
  /\ seen' = {}
  /\ listings' = <<>>
  /\ pc' = "anchors"
  /\ UNCHANGED <<attempt, mainVars, callVars>>

\* A failing attempt of a loop with no budget: after the fourth failure the
\* count starts again and the page is tried once more.
FetchFailNoBudget ==
  /\ pc = "fetch"
  /\ attempt < Attempts
  /\ attempt' = (attempt + 1) % Attempts
  /\ UNCHANGED <<listings, pc, anchors, ai, seen, mainVars, callVars>>

\* An attempt fails: the program sleeps and tries again, and after the last
\* attempt returns the empty list.
FetchFail ==
  /\ pc = "fetch"
  /\ attempt < Attempts
  /\ attempt' = attempt + 1
  /\ IF attempt + 1 = Attempts
     THEN /\ listings' = <<>>
          /\ pc' = "returned"
     ELSE UNCHANGED <<listings, pc>>
  /\ UNCHANGED <<anchors, ai, seen, mainVars, callVars>>

\* One turn of the loop over the anchors.
ProcessAnchor ==
  /\ pc = "anchors"
  /\ ai < Len(anchors)
  /\ ai' = ai + 1
  /\ LET a == anchors[ai + 1] IN
     IF SkipAnchor(a.href, seen)
     THEN UNCHANGED <<seen, listings>>
     ELSE /\ seen' = seen \cup {a.href}
          /\ \E l \in listing_for(a, source.type, now) :
               listings' = Append(listings, l)
  /\ UNCHANGED <<pc, attempt, anchors, mainVars, callVars>>

\* The loop is over: return listings.
ReturnPage ==
  /\ pc = "anchors"
  /\ ai = Len(anchors)
  /\ pc' = "returned"
  /\ UNCHANGED <<attempt, anchors, ai, seen, listings, mainVars, callVars>>

(***************************************************************************)
(* main.                                                                   *)
(***************************************************************************)
\* The head of the loop over SOURCES: a source the --type option leaves
\* out is passed over; otherwise its first page is scraped.
NextSource ==
  /\ pc = "sources"
  /\ src <= Len(SourceOrder)
  /\ IF (args.ptype # "all" /\ args.ptype # SourceOrder[src]) \/ n_pages < 1
     THEN /\ src' = src + 1
          /\ UNCHANGED <<pc, page_num, attempt, calls>>
     ELSE /\ page_num' = 1
          /\ attempt' = 0
          /\ pc' = "fetch"
          /\ calls' = Append(calls, PageCall(src, 1))
          /\ UNCHANGED src
  /\ UNCHANGED <<args, now, anchors, ai, seen, listings, all_listings, output,
                 callVars>>

\* batch = scrape_page(...); all_listings.extend(batch), and whether a
\* delay follows: page_num < pages.stop - 1.
PageDone ==
  /\ pc = "returned"
  /\ all_listings' = all_listings \o listings
  /\ IF page_num < n_pages
     THEN /\ pc' = "delay"
          /\ UNCHANGED src
     ELSE /\ pc' = "sources"
          /\ src' = src + 1
  /\ UNCHANGED <<args, now, page_num, attempt, anchors, ai, seen, listings,
                 output, calls, callVars>>

\* time.sleep(random.uniform(1.5, 3.0)), then the next page.
Delay ==
  /\ pc = "delay"
  /\ page_num' = page_num + 1
  /\ attempt' = 0
  /\ pc' = "fetch"
  /\ calls' = calls \o <<SleepCall(src, page_num), PageCall(src, page_num + 1)>>
  /\ UNCHANGED <<args, now, src, anchors, ai, seen, listings, all_listings,
                 output, callVars>>

\* The listings published at or after the cutoff, all of them without one.
date_filter(ls, cutoff) ==
  IF cutoff = None THEN ls
  ELSE LET Keep(l) == l.published_at >= Get(cutoff) IN SelectSeq(ls, Keep)

DateFilter ==
  /\ pc = "sources"
  /\ src > Len(SourceOrder)
  /\ all_listings' = date_filter(all_listings, date_boundary(args.date, now))
  /\ pc' = "ids"
  /\ UNCHANGED <<args, now, src, page_num, attempt, anchors, ai, seen,
                 listings, output, calls, callVars>>

\* The numbering from 0, as enumerate(all_listings) has it.
enumerate_ids_from_0(ls) == [i \in 1..Len(ls) |-> ls[i] @@ [id |-> i - 1]]

\* for i, l in enumerate(all_listings, 1): l["id"] = i
enumerate_ids(ls) == [i \in 1..Len(ls) |-> ls[i] @@ [id |-> i]]

AssignIds ==
  /\ pc = "ids"
  /\ all_listings' = enumerate_ids(all_listings)
  /\ pc' = "write"
  /\ UNCHANGED <<args, now, src, page_num, attempt, anchors, ai, seen,
                 listings, output, calls, callVars>>

\* Counter(l.get("type", "?") for l in all_listings)
type_counts(ls) ==
  [t \in {ls[i].type : i \in 1..Len(ls)} |->
     Cardinality({i \in 1..Len(ls) : ls[i].type = t})]

\* The document json.dump writes.
output_of(ls, date, at) ==
  [meta |-> [source |-> "avito.ma",
             types |-> type_counts(ls),
             cities |-> <<"Casablanca", "Agadir", "Marrakech", "Tanger",
                          "Rabat", "Mohammedia">>,
             date_filter |-> date,
             total |-> Len(ls),
             scraped_at |-> at],
   listings |-> ls]

WriteOutput ==
  /\ pc = "write"
  /\ output' = Some(output_of(all_listings, args.date, now))
  /\ pc' = "done"
  /\ UNCHANGED <<args, now, src, page_num, attempt, anchors, ai, seen,
                 listings, all_listings, calls, callVars>>

(***************************************************************************)
(* The inputs of a whole run.                                              *)
(***************************************************************************)
\* The largest --pages the model gives.
MaxPages == 2

\* The clock: Wednesday the 10th, 12:00.
ClockReadings == {9 * 1440 + 720}

Anchor(href, raw_lines, img_src) ==
  [href |-> href, raw_lines |-> raw_lines, img_src |-> img_src]

HrefFlat == "https://www.avito.ma/fr/fes/appartements/bel_appartement_1.htm"
HrefStudio == "https://www.avito.ma/fr/fes/appartements/studio_3.htm"
HrefNeuf == "https://www.avito.ma/fr/immoneuf/appartements/residence_4.htm"
HrefVilla == "https://www.avito.ma/fr/ifrane/villas_et_riads/villa_2.htm"
Thumb == "https://content.avito.ma/classifieds/images/1.jpg"

\* A full apartment card, its price split over two lines by get_text.
CardFlat ==
  <<"Appartements dans Fes, Centre", "Bel appartement 117 m2", "NOUVEAU",
    "3 4 6", "4 000 000", "DH", "22 233", "DH", "/ mois", "il y a 3 heures">>
\* A villa card with its price on request, published long ago.
CardVilla ==
  <<"Villas et Riads dans Ifrane", "Villa avec jardin", "5 3 400 m²12",
    "Demander le prix", "il y a 2 mois">>
\* A card with neither a location line nor a price.
CardBare == <<"Voir l'annonce", "il y a 2 jours">>
\* A card with a price and no location line, so no title.
CardPriceOnly == <<"950 000 DH">>
\* A card with a title and no price.
CardTitleOnly == <<"Appartements dans Fes", "Studio meublé", "Demander le prix">>

\* The documents the site serves in a run.
SiteDocs ==
  { <<>>,
    <<Anchor(HrefFlat, CardFlat, Thumb), Anchor(HrefVilla, CardVilla, ""),
      Anchor(HrefFlat, CardFlat, "")>>,
    <<Anchor(HrefFlat, CardFlat, Thumb), Anchor(HrefStudio, CardBare, ""),
      Anchor(HrefNeuf, CardFlat, Thumb), Anchor(HrefVilla, CardVilla, Thumb)>> }

Init ==
  /\ pc = "sources"
  /\ args \in [pages : {Some(n) : n \in 1..MaxPages},
               date : {"all", "today", "week", "month"},
               ptype : {"all", "appartement", "villa"}]
  /\ now \in ClockReadings
  /\ src = 1
  /\ page_num = 0
  /\ attempt = 0
  /\ anchors = <<>>
  /\ ai = 0
  /\ seen = {}
  /\ listings = <<>>
  /\ all_listings = <<>>
  /\ output = None
  /\ calls = <<>>
  /\ line = ""
  /\ parsed = None

Next ==
  \/ NextSource
  \/ FetchOk(SiteDocs)
  \/ FetchFail
  \/ ProcessAnchor
  \/ ReturnPage
  \/ PageDone
  \/ Delay
  \/ DateFilter
  \/ AssignIds
  \/ WriteOutput

Spec == Init /\ [][Next]_vars

(***************************************************************************)
(* One call of scrape_page, on any document of a few anchors.              *)
(***************************************************************************)
\* The most anchors a document of SpecPage holds.
MaxAnchors == 2

\* The sequences over S of length at most n.
RECURSIVE SeqsUpTo(_, _)
SeqsUpTo(S, n) ==
  IF n = 0 THEN {<<>>}
  ELSE LET T == SeqsUpTo(S, n - 1) IN T \cup {Append(t, x) : t \in T, x \in S}

PageHrefs == {HrefFlat, HrefStudio, HrefNeuf}
PageCards == {CardBare, CardPriceOnly, CardTitleOnly}
PageDocs ==
  SeqsUpTo({Anchor(h, c, "") : h \in PageHrefs, c \in PageCards}, MaxAnchors)

\* main has just called scrape_page for a page of the first source; seen
\* still holds what the page before it left there.
InitPage ==
  /\ pc = "fetch"
  /\ args = [pages |-> Some(MaxPages), date |-> "all", ptype |-> "all"]
  /\ now \in ClockReadings
  /\ src = 1
  /\ page_num = 1
  /\ attempt = 0
  /\ anchors = <<>>
  /\ ai = 0
  /\ seen \in SUBSET PageHrefs
  /\ listings = <<>>
  /\ all_listings = <<>>
  /\ output = None
  /\ calls = <<PageCall(1, 1)>>
  /\ line = ""
  /\ parsed = None

NextPage ==
  \/ FetchOk(PageDocs)
  \/ FetchFail
  \/ ProcessAnchor
  \/ ReturnPage

SpecPage == InitPage /\ [][NextPage]_vars

\* The anchors the loop has passed, and the first of them with href h.
Passed == {k \in 1..ai : k <= Len(anchors)}
FirstWith(h) == SetMin({k \in Passed : anchors[k].href = h})
RecordsOf(h) == {i \in 1..Len(listings) : listings[i].link = h}
InLoop == pc \in {"anchors", "returned"}

\* The anchors of the passed ones that scrape_page parses: the first with
\* their href, the href without "immoneuf".
Parsed == {k \in Passed : /\ ~Contains("immoneuf", anchors[k].href)
                          /\ k = FirstWith(anchors[k].href)}
FieldsOf(k) == listing_fields(anchors[k], source.type, now)
Bare(f) == f.title = "" /\ f.price = None

\* C1: of the blocks scrape_page has processed, one whose record has an
\* empty title and no price has no record in the list of the page, and one
\* whose record lacks at most one of the two has its record there.
C1_BareRecordDropped ==
  InLoop =>
    /\ \A i \in 1..Len(listings) : ~Bare(listings[i])
    /\ \A k \in Parsed :
         ~Bare(FieldsOf(k)) => RecordsOf(anchors[k].href) # {}

\* C1: the page has returned a record with an empty title and no price.
C1_BareRecordKept ==
  /\ pc = "returned"
  /\ \E i \in 1..Len(listings) : Bare(listings[i])

\* C2, as the code has it: the list of a page never holds two records with
\* one link; the set of seen links is empty when the loop starts; of the
\* anchors the loop has passed, a link that holds "immoneuf" has no record
\* and any other link has exactly one, that of its first anchor.
C2_OneRecordPerKeptLink ==
  /\ \A i, j \in 1..Len(listings) :
       listings[i].link = listings[j].link => i = j
  /\ (pc = "anchors" /\ ai = 0) => seen = {}
  /\ InLoop =>
       \A k \in Passed :
         LET h == anchors[k].href IN
         IF Contains("immoneuf", h) THEN RecordsOf(h) = {}
         ELSE /\ Cardinality(RecordsOf(h)) = 1
              /\ \A i \in RecordsOf(h) :
                   listings[i] \in
                     listing_for(anchors[FirstWith(h)], source.type, now)

\* C2: two anchors with one link and different cards have been passed, and
\* the page returned the record of the first alone.
C2_DuplicateDropped ==
  /\ pc = "returned"
  /\ Len(anchors) = 2
  /\ anchors[1].href = anchors[2].href
  /\ anchors[1].raw_lines = CardPriceOnly
  /\ anchors[2].raw_lines = CardTitleOnly
  /\ Len(listings) = 1
  /\ listings[1].price = Some(950000)

\* C2, as stated: any two anchors sharing a link yield exactly one record, so
\* every link the loop has passed has exactly one.
C2_OneRecordPerLink ==
  InLoop =>
    \A k \in Passed : Cardinality(RecordsOf(anchors[k].href)) = 1

(***************************************************************************)
(* One call of scrape_page, on a document of one card: a location line     *)
(* and the lines around it.                                                *)
(***************************************************************************)
\* The most lines a card of SpecBlock holds after its location line.
MaxBlockLines == 3

BlockLoc == "Appartements dans Fes"
BlockLines ==
  {"Appartement 117 m2", "NOUVEAU", "3 2 187 m²4", "3 4 6", "2 1 0 m²",
   "700 000 DH", "0 DH"}
BlockCards ==
  {<<BlockLoc>> \o post : post \in SeqsUpTo(BlockLines, MaxBlockLines)}
    \cup {<<"2 1 63 m²0", BlockLoc>> \o post : post \in SeqsUpTo(BlockLines, 2)}
BlockDocs == {<<Anchor(HrefFlat, c, "")>> : c \in BlockCards}

InitBlock == InitPage /\ seen = {}

NextBlock ==
  \/ FetchOk(BlockDocs)
  \/ ProcessAnchor
  \/ ReturnPage

SpecBlock == InitBlock /\ [][NextBlock]_vars

\* The card of the one record of the page, and where its location line is.
CardLines == MergeLines(anchors[1].raw_lines, <<>>)
LocIdx == SetMin({i \in 1..Len(CardLines) : IsLocLine(CardLines[i])})
HasRecord == InLoop /\ Len(listings) = 1

\* |m * surface - price| <= surface / 2: m is price / surface rounded to a
\* nearest integer.
NearestQuotient(m, price, surface) ==
  LET d == m * surface - price IN
  2 * d <= surface /\ -2 * d <= surface

\* C3: in every assembled record price_m2 is present exactly when price and
\* surface are present and surface > 0, a price of 0 included; when present
\* it is price / surface rounded to the nearest integer.
C3_PriceM2Iff ==
  \A i \in 1..Len(listings) :
    LET l == listings[i] IN
    /\ l.price_m2 # None <=>
         (l.price # None /\ l.surface # None /\ Get(l.surface) > 0)
    /\ l.price_m2 # None =>
         NearestQuotient(Get(l.price_m2), Get(l.price), Get(l.surface))

\* C3: a record with a price of 0 and a surface above 0 has no price_m2.
C3_ZeroPriceNoPriceM2 ==
  /\ HasRecord
  /\ listings[1].price = Some(0)
  /\ listings[1].surface # None
  /\ Get(listings[1].surface) > 0
  /\ listings[1].price_m2 = None

\* The lines after the location line that have one of the two shapes of a
\* stats line, and the first of them: <<rooms, surface>> of it.
StatsAfterLoc ==
  {i \in (LocIdx + 1)..Len(CardLines) : parse_stats_line(CardLines[i])[1] # None}
FirstStats ==
  IF StatsAfterLoc = {} THEN <<None, None>>
  ELSE parse_stats_line(CardLines[SetMin(StatsAfterLoc)])

\* The last line before that one, the last line of the card without one.
BeforeStats ==
  IF StatsAfterLoc = {} THEN Len(CardLines) ELSE SetMin(StatsAfterLoc) - 1

\* The surface the title gives: two to four digits before m2 or m², within
\* 20..2000.
TitleSurface(title) ==
  LET m == re_search(TITLE_SURF_RE, title)
      v == ToInt(Get(Group(title, m, 1)))
  IN IF m # None /\ 20 <= v /\ v <= 2000 THEN Some(v) ELSE None

\* The card with a badge line put in after line k.
WithBadge(k) ==
  SubSeq(CardLines, 1, k) \o <<"EXCLUSIVITE">>
    \o SubSeq(CardLines, k + 1, Len(CardLines))

\* C9, as the code has it: the rooms of the record are those of the first
\* line after the location line that has a stats shape; its surface is that
\* of this line when the line gives one, and otherwise the surface read in
\* the title, if any; a badge line put in between the title and that line,
\* or anywhere after the title when there is none, leaves both unchanged.
C9_FirstStatsLineOrTitle ==
  HasRecord =>
    LET l == listings[1] IN
    /\ l.rooms = FirstStats[1]
    /\ l.surface = IF FirstStats[2] # None THEN FirstStats[2]
                   ELSE TitleSurface(l.title)
    /\ \A k \in (LocIdx + 1)..BeforeStats :
         LET b == listing_fields(Anchor(HrefFlat, WithBadge(k), ""),
                                 source.type, now)
         IN b.rooms = l.rooms /\ b.surface = l.surface

\* C9: the stats line came after the title and a badge line, and the record
\* has its rooms and its surface.
C9_StatsAfterBadge ==
  /\ HasRecord
  /\ CardLines = <<BlockLoc, "Appartement 117 m2", "NOUVEAU", "3 2 187 m²4">>
  /\ listings[1].rooms = Some(3)
  /\ listings[1].surface = Some(187)

\* C9, as stated: the rooms and the surface of the record are those of the
\* first line after the location line that has a stats shape.
C9_FirstStatsLine ==
  HasRecord =>
    /\ listings[1].rooms = FirstStats[1]
    /\ listings[1].surface = FirstStats[2]

(***************************************************************************)
(* One call of scrape_page, on a document of one card that is a location   *)
(* line: a city and, or not, a quartier under one of its spellings.        *)
(***************************************************************************)
\* A name without its accents.
Unaccent(c) ==
  CASE c \in {"é", "è"} -> "e"
    [] c = "â" -> "a"
    [] c = "à" -> "a"
    [] c = "ô" -> "o"
    [] c = "ç" -> "c"
    [] OTHER -> c
RECURSIVE Fold(_)
Fold(s) ==
  IF s = "" THEN "" ELSE Unaccent(Ch(s, 1)) \o Fold(Sub(s, 2, Len(s)))

GeoCities == {"Tanger", "Casablanca", "Fes"}
GeoQuartiers ==
  UNION {{k, Lower(k), Upper(k), Fold(k)} : k \in DOMAIN QUARTIER_BOUNDS}
    \cup {"Inconnu"}
GeoLocs ==
  {"Appartements dans " \o c : c \in GeoCities}
    \cup {"Appartements dans " \o c \o ", " \o q :
            c \in GeoCities, q \in GeoQuartiers}
GeoDocs == {<<Anchor(HrefFlat, <<loc>>, "")>> : loc \in GeoLocs}

NextGeo ==
  \/ FetchOk(GeoDocs)
  \/ ProcessAnchor
  \/ ReturnPage

SpecGeo == InitBlock /\ [][NextGeo]_vars

InBox(lat, lng, box) ==
  /\ box[1] <= lat /\ lat <= box[2]
  /\ box[3] <= lng /\ lng <= box[4]
KnownQuartier(l) == l.quartier # None /\ Get(l.quartier) \in DOMAIN QUARTIER_BOUNDS
KnownCity(l) == l.city # None /\ Get(l.city) \in DOMAIN CITY_BOUNDS
Located(l) == l.lat # None /\ l.lng # None

\* C4: the coordinates coords_for gave a record for its quartier and city
\* are both present or both absent; they lie in the box of the quartier
\* when the quartier is an entry, otherwise in the box of the city when the
\* city is one, and otherwise they are absent.
C4_CoordsInBox ==
  \A i \in 1..Len(listings) :
    LET l == listings[i] IN
    /\ l.lat = None <=> l.lng = None
    /\ IF KnownQuartier(l)
       THEN /\ Located(l)
            /\ InBox(Get(l.lat), Get(l.lng), QUARTIER_BOUNDS[Get(l.quartier)])
       ELSE IF KnownCity(l)
       THEN /\ Located(l)
            /\ InBox(Get(l.lat), Get(l.lng), CITY_BOUNDS[Get(l.city)])
       ELSE l.lat = None /\ l.lng = None

\* C4: a record of Tanger in the quartier Malabata has got the north-east
\* corner of the box of Malabata.
C4_QuartierCorner ==
  /\ HasRecord
  /\ listings[1].city = Some("Tanger")
  /\ listings[1].quartier = Some("Malabata")
  /\ listings[1].lat = Some(QUARTIER_BOUNDS["Malabata"][2])
  /\ listings[1].lng = Some(QUARTIER_BOUNDS["Malabata"][4])

\* The entries a name is a spelling of: those it equals but for the case of
\* its letters and their accents.
SpellingOf(name) ==
  {k \in DOMAIN QUARTIER_BOUNDS : Fold(Lower(k)) = Fold(Lower(name))}

\* C7: a record whose quartier is a spelling of an entry, differing from it
\* in case or accents only, has coordinates in the box of that entry.
C7_SpellingsResolve ==
  \A i \in 1..Len(listings) :
    LET l == listings[i] IN
    l.quartier # None =>
      \A k \in SpellingOf(Get(l.quartier)) :
        /\ Located(l)
        /\ InBox(Get(l.lat), Get(l.lng), QUARTIER_BOUNDS[k])

\* C7: the location "Appartements dans Fes, Maarif Extension" has given a
\* record without coordinates, the entry being "Maârif Extension".
C7_UnaccentedMissed ==
  /\ HasRecord
  /\ listings[1].location = "Appartements dans Fes, Maarif Extension"
  /\ "Maârif Extension" \in DOMAIN QUARTIER_BOUNDS
  /\ listings[1].quartier = Some("Maarif Extension")
  /\ listings[1].lat = None
  /\ listings[1].lng = None

\* C10: a record with a known city and coordinates has them in the box of
\* that city.
C10_CoordsInCity ==
  \A i \in 1..Len(listings) :
    LET l == listings[i] IN
    (KnownCity(l) /\ Located(l)) =>
      InBox(Get(l.lat), Get(l.lng), CITY_BOUNDS[Get(l.city)])

\* C10: a record of Tanger in the quartier Val Fleuri has coordinates in
\* the box of Casablanca.
C10_TangerInCasablanca ==
  /\ HasRecord
  /\ listings[1].city = Some("Tanger")
  /\ listings[1].quartier = Some("Val Fleuri")
  /\ Located(listings[1])
  /\ InBox(Get(listings[1].lat), Get(listings[1].lng), CITY_BOUNDS["Casablanca"])
  /\ ~InBox(Get(listings[1].lat), Get(listings[1].lng), CITY_BOUNDS["Tanger"])

(***************************************************************************)
(* The whole run.                                                          *)
(***************************************************************************)
Written == Get(output).listings
SeqRange(q) == {q[i] : i \in 1..Len(q)}

\* C5: the listings written carry the ids 1, 2, ..., N in the order of the
\* list, N being their number and meta.total; they are published at or
\* after the cutoff of the date filter; and no listing has an id while pages
\* are still being scraped and merged or the filter is still to come.
C5_IdsAfterMerge ==
  /\ pc = "done" =>
       /\ output # None
       /\ \A i \in 1..Len(Written) : Written[i].id = i
       /\ Get(output).meta.total = Len(Written)
       /\ date_boundary(args.date, now) # None =>
            \A i \in 1..Len(Written) :
              Written[i].published_at >= Get(date_boundary(args.date, now))
  /\ pc \notin {"write", "done"} =>
       \A l \in SeqRange(all_listings) \cup SeqRange(listings) :
         "id" \notin DOMAIN l

\* C5: a run over both sources with --date month has written four listings,
\* the last of them with id 4.
C5_FourWritten ==
  /\ pc = "done"
  /\ args.ptype = "all"
  /\ args.date = "month"
  /\ Len(Written) = 4
  /\ Written[4].id = 4
  /\ Written[1].link = Written[3].link

ListingKeys ==
  {"title", "type", "city", "quartier", "lat", "lng", "price", "surface",
   "rooms", "price_m2", "location", "link", "images", "published_at",
   "time_text", "scraped_at", "id", "page"}

\* C8: every listing written has exactly the keys title, type, city,
\* quartier, lat, lng, price, surface, rooms, price_m2, location, link,
\* images, published_at, time_text, scraped_at, id and page.
C8_ListingKeys ==
  pc = "done" => \A i \in 1..Len(Written) : DOMAIN Written[i] = ListingKeys

\* C8: a listing has been written with all of these keys but page.
C8_NoPageKey ==
  /\ pc = "done"
  /\ Len(Written) > 0
  /\ DOMAIN Written[1] = ListingKeys \ {"page"}

(***************************************************************************)
(* One call of parse_price_line, on any line of a few tokens.              *)
(***************************************************************************)
\* The most tokens a line of SpecPrice is made of.
MaxPriceTokens == 4

PriceTokens == {"1", "2", " ", NBSP, "DH", "dh", "x"}
RECURSIVE Concat(_)
Concat(q) == IF q = <<>> THEN "" ELSE Head(q) \o Concat(Tail(q))
PriceLines == {Concat(q) : q \in SeqsUpTo(PriceTokens, MaxPriceTokens)}

InitPrice ==
  /\ pc = "call"
  /\ line \in PriceLines
  /\ parsed = None
  /\ args = [pages |-> Some(MaxPages), date |-> "all", ptype |-> "all"]
  /\ now \in ClockReadings
  /\ src = 1
  /\ page_num = 0
  /\ attempt = 0
  /\ anchors = <<>>
  /\ ai = 0
  /\ seen = {}
  /\ listings = <<>>
  /\ all_listings = <<>>
  /\ output = None
  /\ calls = <<>>

\* parsed = parse_price_line(line)
CallParsePrice ==
  /\ pc = "call"
  /\ parsed' = parse_price_line(line)
  /\ pc' = "return"
  /\ UNCHANGED <<line, attempt, anchors, ai, seen, listings, mainVars>>

NextPrice == CallParsePrice

SpecPrice == InitPrice /\ [][NextPrice]_vars

\* The first place of a line, its separators made ordinary spaces, where a
\* figure stands before the marker DH, and the integer of its digits.
FirstFigure(text) ==
  LET l == NormaliseSpaces(text)
      m == re_search(PRICE_BODY, l)
  IN IF m = None THEN None ELSE Some(ToInt(DropWs(Get(Group(l, m, 1)))))

\* C6: parse_price_line returns the integer of the first figure followed by
\* the marker that stands anywhere in the line, and no value when the line
\* has none.
C6_FirstFigureAnywhere ==
  pc = "return" => parsed = FirstFigure(line)

\* C6: the line "x12DH" has a figure before the marker, and the call
\* returned no value.
C6_FigureAfterTextMissed ==
  /\ pc = "return"
  /\ line = "x12DH"
  /\ FirstFigure(line) = Some(12)
  /\ parsed = None

(***************************************************************************)
(* A whole run whose every page, when its fetch succeeds, holds one card   *)
(* of each source.  The program is sequential: a statement that can run    *)
(* does run, SESSION.get(url, timeout=30) ends in a response or an         *)
(* exception, and time.sleep returns.                                      *)
(***************************************************************************)
RunDocs ==
  { <<Anchor(HrefFlat, CardFlat, Thumb), Anchor(HrefVilla, CardVilla, "")>> }

NextRun ==
  \/ NextSource
  \/ FetchOk(RunDocs)
  \/ FetchFail
  \/ ProcessAnchor
  \/ ReturnPage
  \/ PageDone
  \/ Delay
  \/ DateFilter
  \/ AssignIds
  \/ WriteOutput

\* One turn of the loop over the anchors, as its counter shows it.  Every
\* anchor not skipped gets a dict (listing_for is never empty), so a turn can
\* be taken exactly when ProcessAnchor can, and the steps of a run that
\* change ai this way are the steps of ProcessAnchor.
LoopTurn == pc = "anchors" /\ ai < Len(anchors) /\ ai' = ai + 1

\* The statements outside that loop.
Statements ==
  \/ NextSource
  \/ FetchOk(RunDocs)
  \/ FetchFail
  \/ ReturnPage
  \/ PageDone
  \/ Delay
  \/ DateFilter
  \/ AssignIds
  \/ WriteOutput

\* A statement that can run does run, and so does a turn of the loop.
Fairness == WF_vars(Statements) /\ WF_ai(LoopTurn)

SpecRun == Init /\ [][NextRun]_vars /\ Fairness

\* The places of calls where scrape_page was called.
PageCallsAt == {k \in 1..Len(calls) : calls[k].op = "scrape_page"}

\* The index in SourceOrder of a source.
SourceIdx(ptype) == CHOOSE s \in 1..Len(SourceOrder) : SourceOrder[s] = ptype

\* Call c2 of scrape_page comes after call c1 in source-then-page order:
\* the next page of the same source, or the first page of a later source.
NextInOrder(c1, c2) ==
  \/ c2.source = c1.source /\ c2.page = c1.page + 1
  \/ SourceIdx(c2.source) > SourceIdx(c1.source) /\ c2.page = 1

\* The pages are called in source-then-page order, the first of them being
\* the first page of its source.
InSourceThenPageOrder ==
  \A k \in PageCallsAt :
    IF \E j \in PageCallsAt : j < k
    THEN NextInOrder(calls[SetMax({j \in PageCallsAt : j < k})], calls[k])
    ELSE calls[k].page = 1

\* C11: over a whole run the pages are fetched in source-then-page order,
\* and between every two consecutive page fetches of the run, the last page
\* of one source and the first page of the next included, a randomized delay
\* is taken.
C11_DelayBetweenAllFetches ==
  /\ InSourceThenPageOrder
  /\ \A k \in PageCallsAt : k > 1 => calls[k - 1].op = "sleep"

\* C11: the first page of the second source was fetched right after the last
\* page of the first, and no delay was taken between the two.
C11_NoDelayBetweenSources ==
  \E k \in PageCallsAt :
    /\ k > 1
    /\ calls[k] = PageCall(2, 1)
    /\ calls[k - 1] = PageCall(1, Get(args.pages))

\* The pages a run has to fetch: pages 1..n of every source the --type
\* option selects, n being --pages or the number the source is configured with.
PagesFor(s) ==
  IF args.pages # None /\ Get(args.pages) # 0 THEN Get(args.pages)
  ELSE SOURCES[SourceOrder[s]].pages
Selected == {s \in 1..Len(SourceOrder) : args.ptype \in {"all", SourceOrder[s]}}
ExpectedPages == UNION {{PageCall(s, p) : p \in 1..PagesFor(s)} : s \in Selected}

\* All attempts of the page at hand have failed.
Exhausted == pc = "returned" /\ attempt = Attempts

\* C12: for every page scrape_page makes at most 4 fetch attempts (one more
\* is made only while fewer than 4 have failed) and makes none after the
\* first success; when all 4 fail it returns the empty list and the page adds
\* no record; the run goes on, so that when it ends every page of every
\* selected source has been called; and the run always ends, whatever the
\* pattern of fetch failures.
C12_RetryBudgetAndTermination ==
  /\ [](attempt <= Attempts /\ (pc = "fetch" => attempt < Attempts))
  /\ [][attempt' # attempt => (pc = "fetch" /\ pc' # "anchors") \/ attempt' = 0]_vars
  /\ [](Exhausted => listings = <<>>)
  /\ [][Exhausted => all_listings' = all_listings /\ pc' \in {"delay", "sources"}]_vars
  /\ [](pc = "done" => {calls[k] : k \in PageCallsAt} = ExpectedPages)
  /\ <>(pc = "done")

\* C12: a run over two pages of both sources has ended with one record, of
\* the last page, fetched at the fourth attempt: the three pages before it
\* failed four times each and added nothing.
C12_RunWentOnAfterFailures ==
  /\ pc = "done"
  /\ args = [pages |-> Some(2), date |-> "all", ptype |-> "all"]
  /\ Len(calls) = 6
  /\ attempt = Attempts - 1
  /\ Len(Written) = 1
  /\ Written[1].type = "villa"
=============================================================================
